---- MODULE Spec2Model ----
(***************************************************************************)
(* pyetl: the data-source engine (pyetl/datasource), its connections       *)
(* (pyetl/connections) and the helpers they call.                          *)
(*                                                                         *)
(* A Python call either returns or raises.  Every operator that models a   *)
(* method yields a record whose field "outcome" is "ok" or the name of the *)
(* exception class raised, and whose field "site" names the statement that *)
(* raised.  A call of a name that resolves to a def with another number of *)
(* parameters raises TypeError, a call of an abstract method raises        *)
(* NotImplementedError, as the interpreter does.                           *)
(*                                                                         *)
(* Rows are numbers, a table or file is the sequence of its rows, a        *)
(* location with n addresses holds the addresses 1..n.                     *)
(***************************************************************************)
EXTENDS Naturals, Integers, Sequences, FiniteSets, TLC

\* ---------------------------------------------------------------- bounds
MaxLoc == 3
MaxRows == 4
MaxTableRows == 6
MaxSessions == 2
MaxElems == 2
MaxPreds == 3
MaxVars == 2

Addr == 1..MaxLoc

VARIABLES self, store, exists, conn, last, log

vars == <<self, store, exists, conn, last, log>>

\* ------------------------------------------------------- values and helpers
Min(a, b) == IF a <= b THEN a ELSE b

RECURSIVE SumTo(_, _)
SumTo(f, n) == IF n = 0 THEN 0 ELSE f[n] + SumTo(f, n - 1)

RECURSIVE ConcatTo(_, _)
ConcatTo(f, n) == IF n = 0 THEN <<>> ELSE ConcatTo(f, n - 1) \o f[n]

\* the rows 1..n of a table handed to write()
Rows(n) == [i \in 1..n |-> i]

\* the n rows the address a holds to begin with
StoredRows(a, n) == [i \in 1..n |-> 10 * a + i]

\* None, and a catalog with its variable names
NoneMd == [is_none |-> TRUE, names |-> {}]
Catalog(ns) == [is_none |-> FALSE, names |-> ns]
CatalogNames == {"A", "B"}
OtherNames == {"A", "C"}

\* df.columns of every chunk read from the store
DataColumns == {"A", "B"}

\* None, and the list of chunk iterators
NoneIterator == [is_none |-> TRUE, iters |-> <<>>]

Raise(exc, at) == [outcome |-> exc, site |-> at]
Ok == [outcome |-> "ok", site |-> ""]

\* ------------------------------------------------------------ class DataSource
\* the class attributes every instance starts from; chunk_size is the number of
\* rows per chunk (1e4 in the class, the chunksize argument in FileDataSource)
ClassDefaults(kind) ==
    [kind |-> kind, access_mode |-> "read-only", nloc |-> 0, lockind |-> "none",
     md |-> NoneMd, shape |-> <<0, 0>>, location_iterator |-> NoneIterator,
     chunk_size |-> 2]

valid_modes == {"read-only", "append", "create"}

\* access_mode.lower().strip() on the spellings the callers of the model use
NormaliseMode(m) ==
    CASE m = "APPEND " -> "append"
      [] m = " Read-Only" -> "read-only"
      [] OTHER -> m

RawModes == {"read-only", "append", "create", "APPEND ", " Read-Only", "read-write"}

mode_is_read_only(obj) == obj.access_mode = "read-only"
mode_is_append(obj) == obj.access_mode = "append"
mode_is_create(obj) == obj.access_mode = "create"

has_metadata(obj) == ~obj.md.is_none
has_location_iterator(obj) == ~obj.location_iterator.is_none

\* isinstance(self, Connection)
requires_connection(obj) == obj.kind = "VerticaDataSource"

\* def fetch_metadata(self): the parameters it takes after self
fetch_metadata_params == 0

\* DataSource.fetch_metadata / FileDataSource.fetch_metadata, called with nargs
\* arguments after self; dictionary_md is what the dictionary's read_metadata gives
fetch_metadata(obj, nargs, dictionary_md) ==
    IF nargs # fetch_metadata_params
    THEN [obj |-> obj, res |-> Raise("TypeError", "fetch_metadata")]
    ELSE IF obj.kind = "FileDataSource"
         THEN [obj |-> [obj EXCEPT !.md = dictionary_md], res |-> Ok]
         ELSE [obj |-> obj, res |-> Raise("NotImplementedError", "fetch_metadata")]

\* "there can be only a single output data location"
SingleLocationCheck_OnlyCreate(obj) ==
    mode_is_create(obj) /\ obj.nloc # 1
SingleLocationCheck(obj) ==
    (mode_is_append(obj) \/ mode_is_create(obj)) /\ obj.nloc # 1

\* DataSource.__init__
DataSource_init(obj0, access_mode, nloc, lockind, flag_read_metadata, dictionary_md) ==
    LET o1 == [obj0 EXCEPT !.nloc = nloc, !.lockind = lockind]
        mode == NormaliseMode(access_mode)
    IN  IF mode \notin valid_modes
        THEN [obj |-> o1, res |-> Raise("TypeError", "access-mode")]
        ELSE
          LET o2 == [o1 EXCEPT !.access_mode = mode]
              f  == IF flag_read_metadata /\ (mode_is_read_only(o2) \/ mode_is_append(o2))
                    THEN fetch_metadata(o2, 0, dictionary_md)
                    ELSE [obj |-> o2, res |-> Ok]
          IN  IF f.res.outcome # "ok" THEN f
              ELSE IF SingleLocationCheck(f.obj)
                   THEN [obj |-> f.obj, res |-> Raise("ValueError", "single-location")]
                   \* requires_connection(): Connection.__init__ with credentials = None
                   \* stores conn_params and reaches no server
                   ELSE [obj |-> f.obj, res |-> Ok]

\* ------------------------------------------------------- location iterators
\* pd.read_csv(file, iterator=True, chunksize=c): the rows of one address in
\* chunks of c rows, the last one shorter
RECURSIVE Chunks(_, _)
Chunks(rows, c) ==
    IF Len(rows) = 0 THEN <<>>
    ELSE <<SubSeq(rows, 1, Min(c, Len(rows)))>>
         \o Chunks(SubSeq(rows, Min(c, Len(rows)) + 1, Len(rows)), c)

\* FileDataSource._crerate_location_iterator: one chunk iterator per address
crerate_location_iterator(obj, st) ==
    [is_none |-> FALSE, iters |-> [i \in 1..obj.nloc |-> Chunks(st[i], obj.chunk_size)]]

\* the classes of src/ that define a method named _create_location_iterator
\* besides the abstract one of DataSource
Defines_create_location_iterator == {}

\* self._create_location_iterator() as the method resolution finds it
create_location_iterator(obj, st) ==
    IF obj.kind \in Defines_create_location_iterator
    THEN [it |-> crerate_location_iterator(obj, st), res |-> Ok]
    ELSE [it |-> obj.location_iterator,
          res |-> Raise("NotImplementedError", "_create_location_iterator")]

\* DataSource.init_location_iterator
init_location_iterator(obj, st) ==
    LET c == create_location_iterator(obj, st)
    IN  IF c.res.outcome = "ok"
        THEN [obj |-> [obj EXCEPT !.location_iterator = c.it], res |-> Ok]
        ELSE [obj |-> obj, res |-> c.res]

\* ------------------------------------------------------- class FileDataSource
\* rowcount(filename): the lines of the files, each file with its header line
rowcount(obj, st) == SumTo([i \in 1..obj.nloc |-> Len(st[i]) + 1], obj.nloc)

\* FileDataSource.compute_size, with header = 0 among the read_csv parameters
FileDataSource_compute_size(obj, st) ==
    <<rowcount(obj, st) - (1 + 0 * obj.nloc),
      IF obj.md.is_none THEN 0 - 1 ELSE Cardinality(obj.md.names)>>

\* FileDataSource.__init__; nloc is the number of paths glob() found.
\* metadata_step tells whether the statement that is to provide the catalog
\* (self.get_metadata(), line 36) has been executed
FileDataSource_init(obj0, source_type, nloc, st) ==
    LET b == DataSource_init(obj0, source_type, nloc, "file", FALSE, NoneMd)
    IN  IF b.res.outcome # "ok"
        THEN [obj |-> b.obj, res |-> b.res, metadata_step |-> FALSE]
        ELSE
          \* self.get_metadata() returns self._md and assigns nothing
          LET i == init_location_iterator(b.obj, st)
          IN  IF i.res.outcome # "ok"
              THEN [obj |-> i.obj, res |-> i.res, metadata_step |-> TRUE]
              ELSE [obj |-> [i.obj EXCEPT !.shape = FileDataSource_compute_size(i.obj, st)],
                    res |-> Ok, metadata_step |-> TRUE]

\* ------------------------------------------------------------ connections
\* _backend_connection = None, and no session open on the server
NoConnection == [handle |-> "None", sessions |-> 0]

\* VerticaConnection.open: vpy.connect(...) gives a new session or raises; the
\* handle held before is overwritten
open(c, reachable) ==
    IF reachable
    THEN [conn |-> [handle |-> "open", sessions |-> c.sessions + 1], res |-> Ok]
    ELSE [conn |-> c, res |-> Raise("ConnectionError", "vpy.connect")]

\* VerticaConnection.close: None has no close()
close(c) ==
    IF c.handle = "None" THEN [conn |-> c, res |-> Raise("AttributeError", "close")]
    ELSE [conn |-> [handle |-> "None", sessions |-> c.sessions - 1], res |-> Ok]

\* _auto_open_close(func): fres is what func does on the opened session
auto_open_close(c, reachable, fres) ==
    LET o == open(c, reachable)
    IN  IF o.res.outcome # "ok" THEN o
        ELSE LET cl == close(o.conn)
             IN  [conn |-> cl.conn,
                  res |-> IF fres.outcome # "ok" THEN fres ELSE cl.res]

\* VerticaConnection._test
test(c, reachable) ==
    LET o == open(c, reachable)
    IN  [conn |-> o.conn, value |-> o.res.outcome = "ok", res |-> Ok]

\* Connection.test_connection
test_connection(c, reachable) ==
    LET t == test(c, reachable)
    IN  [conn |-> t.conn, value |-> IF t.res.outcome = "ok" THEN t.value ELSE FALSE,
         res |-> Ok]

\* the statements sent to the server, in order
LogEntry(what, a) == [op |-> what, addr |-> a]

\* VerticaConnection.drop_tables for the addresses 1..n that are in tables:
\* a failing DROP TABLE is logged and the loop goes on
RECURSIVE drop_tables(_, _, _, _)
drop_tables(n, tables, ex, reachable) ==
    IF n = 0 THEN [exists |-> ex, log |-> <<>>, res |-> Ok]
    ELSE LET d == drop_tables(n - 1, tables, ex, reachable)
         IN  IF n \notin tables THEN d
             ELSE IF reachable /\ n \in d.exists
                  THEN [exists |-> d.exists \ {n},
                        log |-> Append(d.log, LogEntry("drop", n)), res |-> Ok]
                  ELSE [d EXCEPT !.log = Append(d.log, LogEntry("drop-failed", n))]

\* VerticaDataSource.create_table: its first statement calls self._location,
\* which is the location object and not a function
create_table(obj, metadata, ex) ==
    [exists |-> ex, log |-> <<>>, res |-> Raise("TypeError", "self._location()")]

\* ---------------------------------------------------- class DatabaseDataSource
\* DatabaseDataSource.process_location(location): gives the location back
\* (with the variable names of its projection)
process_location(nloc, lockind) == [nloc |-> nloc, lockind |-> lockind]

\* self.check_table_existence(): one probe of the store per table, one flag each
check_table_existence(obj, ex) ==
    [flags |-> [i \in 1..obj.nloc |-> i \in ex],
     log |-> [i \in 1..obj.nloc |-> LogEntry("probe", i)]]

\* def table_exist(self, conn, tbl_name): the parameters it takes after self
table_exist_params == 2

\* "Query inputs are only supported in read-only mode"
QueryModeCheck_OnlyCreate(obj) ==
    obj.lockind = "query" /\ mode_is_create(obj)
QueryModeCheck(obj) ==
    obj.lockind = "query" /\ ~mode_is_read_only(obj)

\* DatabaseDataSource.__init__ (VerticaDataSource.__init__ passes its arguments on)
DatabaseDataSource_init(obj0, access_mode, nloc, lockind, metadata, ex, reachable) ==
    LET loc == process_location(nloc, lockind)
        b == DataSource_init(obj0, access_mode, loc.nloc, loc.lockind, FALSE, NoneMd)
        Fail(o, r, lg, e, step) ==
            [obj |-> o, res |-> r, log |-> lg, exists |-> e, metadata_step |-> step]
    IN  IF b.res.outcome # "ok" THEN Fail(b.obj, b.res, <<>>, ex, FALSE)
        ELSE IF QueryModeCheck(b.obj)
        THEN Fail(b.obj, Raise("ValueError", "query-read-only"), <<>>, ex, FALSE)
        ELSE IF mode_is_read_only(b.obj) \/ mode_is_append(b.obj)
        THEN LET chk == check_table_existence(b.obj, ex)
                 f == fetch_metadata(b.obj, 1, NoneMd)
             IN  IF f.res.outcome # "ok" THEN Fail(f.obj, f.res, chk.log, ex, FALSE)
                 ELSE [obj |-> f.obj, res |-> Ok, log |-> chk.log, exists |-> ex,
                       metadata_step |-> TRUE]
        ELSE \* 'create' mode
             IF 1 # table_exist_params
             THEN Fail(b.obj, Raise("TypeError", "table_exist"), <<>>, ex, FALSE)
             ELSE LET existing == {i \in 1..b.obj.nloc : i \in ex}
                      d == IF existing # {}
                           THEN drop_tables(b.obj.nloc, existing, ex, reachable)
                           ELSE [exists |-> ex, log |-> <<>>, res |-> Ok]
                      c == create_table(b.obj, metadata, d.exists)
                  IN  IF c.res.outcome # "ok"
                      THEN Fail(b.obj, c.res, d.log \o c.log, c.exists, FALSE)
                      ELSE LET f == fetch_metadata(b.obj, 1, NoneMd)
                           IN  [obj |-> f.obj, res |-> f.res, log |-> d.log \o c.log,
                                exists |-> c.exists,
                                metadata_step |-> f.res.outcome = "ok"]

\* --------------------------------------------------------------- the record of
\* the operation that ran last
NoOp ==
    [op |-> "none", kind |-> "none", mode |-> "", nloc |-> 0, lockind |-> "none",
     flag |-> FALSE, outcome |-> "ok", site |-> "", metadata_step |-> FALSE,
     rows |-> <<>>, before |-> [a \in Addr |-> <<>>], had_iterator |-> FALSE,
     pending |-> <<>>, value |-> FALSE, ex_before |-> {}, remote_failed |-> FALSE,
     receiver |-> FALSE]

\* ------------------------------------------------------------- construction
CtorRecord(kind, m, n, lk, flag, metadata, r, ex) ==
    [NoOp EXCEPT !.op = "__init__", !.kind = kind, !.mode = m, !.nloc = n,
                 !.lockind = lk, !.flag = flag, !.value = metadata,
                 !.outcome = r.res.outcome, !.site = r.res.site,
                 !.metadata_step = r.metadata_step, !.ex_before = ex]

\* DataSource(access_mode, is_case_sensitive, location, dictionary, var_name,
\*            flag_read_metadata)
ConstructDataSource ==
    \E m \in RawModes, n \in 0..MaxLoc, flag \in BOOLEAN, lk \in {"file", "table"} :
        LET r == DataSource_init(ClassDefaults("DataSource"), m, n, lk, flag, NoneMd)
                     @@ [metadata_step |-> FALSE]
        IN  /\ self' = r.obj
            /\ log' = <<>>
            /\ last' = CtorRecord("DataSource", m, n, lk, flag, FALSE, r, exists)
            /\ UNCHANGED <<store, exists, conn>>

\* FileDataSource(source_type, filepath, dictionary, chunksize)
ConstructFile ==
    \E m \in RawModes, n \in 0..MaxLoc :
        LET r == FileDataSource_init(ClassDefaults("FileDataSource"), m, n, store)
        IN  /\ self' = r.obj
            /\ log' = <<>>
            /\ last' = CtorRecord("FileDataSource", m, n, "file", FALSE, FALSE, r, exists)
            /\ UNCHANGED <<store, exists, conn>>

\* VerticaDataSource(access_mode, location, dictionary, metadata)
ConstructVertica ==
    \E m \in RawModes, n \in 0..MaxLoc, lk \in {"table", "query"},
       metadata \in BOOLEAN, reachable \in BOOLEAN :
        LET r == DatabaseDataSource_init(ClassDefaults("VerticaDataSource"), m, n, lk,
                                         metadata, exists, reachable)
        IN  /\ self' = r.obj
            /\ exists' = r.exists
            /\ log' = r.log
            /\ last' = CtorRecord("VerticaDataSource", m, n, lk, FALSE, metadata, r, exists)
            /\ UNCHANGED <<store, conn>>

InitCtor ==
    /\ self = ClassDefaults("DataSource")
    /\ store = [a \in Addr |-> StoredRows(a, a)]
    /\ exists \in SUBSET Addr
    /\ conn = NoConnection
    /\ last = NoOp
    /\ log = <<>>

NextCtor == ConstructDataSource \/ ConstructFile \/ ConstructVertica

SpecCtor == InitCtor /\ [][NextCtor]_vars

\* ------------------------------------------------- claims on construction
CtorRan == last.op = "__init__"
CtorMode == NormaliseMode(last.mode)

C3_QueryReadOnly ==
    (CtorRan /\ last.kind = "VerticaDataSource" /\ last.lockind = "query") =>
        /\ (CtorMode \in {"append", "create"} =>
                /\ last.outcome = "ValueError"
                /\ last.site \in {"single-location", "query-read-only"}
                /\ log = <<>>
                /\ exists = last.ex_before)
        /\ (last.outcome = "ok" => CtorMode = "read-only")

C3_Witness ==
    /\ CtorRan /\ last.kind = "VerticaDataSource" /\ last.lockind = "query"
    /\ CtorMode = "append" /\ last.nloc = 1 /\ 1 \in last.ex_before
    /\ last.outcome = "ValueError" /\ last.site = "query-read-only"
    /\ log = <<>> /\ 1 \in exists

\* C4: the construction of a database DataSource in create mode on one table, with
\* the metadata supplied, drops the table if it exists, then creates it, then
\* fetches the metadata, and returns with the catalog present.
C4_CreateOrder ==
    (CtorRan /\ last.kind = "VerticaDataSource" /\ last.lockind = "table"
        /\ CtorMode = "create" /\ last.nloc = 1 /\ last.value) =>
        /\ last.outcome = "ok"
        /\ has_metadata(self)
        /\ log = (IF 1 \in last.ex_before THEN <<LogEntry("drop", 1)>> ELSE <<>>)
                   \o <<LogEntry("create", 1), LogEntry("fetch_metadata", 1)>>

RECURSIVE Flatten(_)
Flatten(chunks) ==
    IF Len(chunks) = 0 THEN <<>> ELSE Head(chunks) \o Flatten(Tail(chunks))

\* the rows a list of chunk iterators still holds, in location order
RECURSIVE RowsOf(_)
RowsOf(iters) ==
    IF Len(iters) = 0 THEN <<>> ELSE Flatten(Head(iters)) \o RowsOf(Tail(iters))

\* the first chunk iterator that has a chunk to give, 0 if none has
FirstChunkAt(iters) ==
    IF \E k \in 1..Len(iters) : Len(iters[k]) > 0
    THEN CHOOSE k \in 1..Len(iters) :
            Len(iters[k]) > 0 /\ \A j \in 1..(k - 1) : Len(iters[j]) = 0
    ELSE 0

\* DataSource.get_data_iterator, drained by its caller: rows are the rows of the
\* chunks it yielded before it returned or raised
get_data_iterator(obj) ==
    LET it == obj.location_iterator
        k  == FirstChunkAt(it.iters)
    IN  IF it.is_none
        THEN [obj |-> obj, rows |-> <<>>, res |-> Raise("TypeError", "for li in None")]
        ELSE IF has_metadata(obj) /\ k > 0
        THEN \* the first chunk read is checked against the catalog
             [obj |-> [obj EXCEPT !.location_iterator.iters =
                                      SubSeq(it.iters, k + 1, Len(it.iters))],
              rows |-> <<>>,
              res |-> IF obj.md.names = DataColumns
                      THEN Raise("ValueError", "names-inconsistent")
                      ELSE Raise("AttributeError", "df.colums")]
        ELSE [obj |-> [obj EXCEPT !.location_iterator.iters = <<>>],
              rows |-> RowsOf(it.iters), res |-> Ok]

\* DataSource.read_all
read_all(obj, st) ==
    LET i == IF has_location_iterator(obj) THEN init_location_iterator(obj, st)
             ELSE [obj |-> obj, res |-> Ok]
        g == get_data_iterator(i.obj)
    IN  IF i.res.outcome # "ok" THEN [obj |-> i.obj, rows |-> <<>>, res |-> i.res]
        ELSE IF g.res.outcome # "ok" THEN g
        ELSE IF g.rows = <<>>
        THEN [obj |-> g.obj, rows |-> <<>>, res |-> Raise("ValueError", "pd.concat")]
        ELSE IF Len(g.rows) # g.obj.shape[1]
        THEN [obj |-> g.obj, rows |-> <<>>, res |-> Raise("ValueError", "size-mismatch")]
        ELSE [obj |-> g.obj, rows |-> g.rows, res |-> Ok]

MethodRecord(name, obj, res, rows) ==
    [NoOp EXCEPT !.op = name, !.kind = obj.kind, !.mode = obj.access_mode,
                 !.nloc = obj.nloc, !.lockind = obj.lockind,
                 !.outcome = res.outcome, !.site = res.site, !.rows = rows,
                 !.had_iterator = has_location_iterator(obj),
                 !.pending = RowsOf(obj.location_iterator.iters)]

\* ds.read_all()
ReadAll ==
    LET r == read_all(self, store)
    IN  /\ self' = r.obj
        /\ last' = MethodRecord("read_all", self, r.res, r.rows)
        /\ UNCHANGED <<store, exists, conn, log>>

\* list(ds.get_data_iterator())
GetDataIterator ==
    LET r == get_data_iterator(self)
    IN  /\ self' = r.obj
        /\ last' = MethodRecord("get_data_iterator", self, r.res, r.rows)
        /\ UNCHANGED <<store, exists, conn, log>>

\* ds.init_location_iterator()
InitLocationIterator ==
    LET r == init_location_iterator(self, store)
    IN  /\ self' = r.obj
        /\ last' = MethodRecord("init_location_iterator", self, r.res, <<>>)
        /\ UNCHANGED <<store, exists, conn, log>>

\* ds.fetch_metadata(), the dictionary giving a catalog
FetchMetadata ==
    \E names \in {CatalogNames, OtherNames} :
        LET r == fetch_metadata(self, 0, Catalog(names))
        IN  /\ self' = r.obj
            /\ last' = MethodRecord("fetch_metadata", self, r.res, <<>>)
            /\ UNCHANGED <<store, exists, conn, log>>

\* the environment: a file or table loses its last row after the instance was built
RemoveRow ==
    \E a \in Addr :
        /\ Len(store[a]) > 0
        /\ store' = [store EXCEPT ![a] = SubSeq(store[a], 1, Len(store[a]) - 1)]
        /\ last' = [NoOp EXCEPT !.op = "remove-row"]
        /\ UNCHANGED <<self, exists, conn, log>>

\* the numbers of rows an address holds to begin with
ReadSizes == {0, 1, 3}

Stores == {[a \in Addr |-> StoredRows(a, f[a])] : f \in [Addr -> ReadSizes]}

\* the (access mode, number of addresses) pairs DataSource.__init__ lets through
ModeAndSize ==
    {<<m, n>> \in valid_modes \X (0..MaxLoc) : m = "read-only" \/ n = 1}

\* the file-backed instances over the store st, as the assignments of
\* FileDataSource.__init__ leave the fields: with the list of chunk iterators
\* that _crerate_location_iterator builds, or with none
FileReceivers(st) ==
    {LET o == [ClassDefaults("FileDataSource") EXCEPT
                   !.access_mode = ms[1], !.nloc = ms[2], !.lockind = "file"]
         oi == [o EXCEPT !.location_iterator =
                    IF with THEN crerate_location_iterator(o, st) ELSE NoneIterator]
     IN  [oi EXCEPT !.shape = FileDataSource_compute_size(oi, st)] :
        ms \in ModeAndSize, with \in BOOLEAN}

\* the database-backed instances: DatabaseDataSource.__init__ assigns neither
\* _shape nor _location_iterator
VerticaReceivers ==
    {[ClassDefaults("VerticaDataSource") EXCEPT
          !.access_mode = ms[1], !.nloc = ms[2], !.lockind = lk] :
        ms \in ModeAndSize, lk \in {"table"}}
      \cup {[ClassDefaults("VerticaDataSource") EXCEPT !.nloc = 1, !.lockind = "query"]}

\* ------------------------------------------------------- read-only copies
\* what a call hands back: None, or an instance
NoneValue == [is_none |-> TRUE, obj |-> ClassDefaults("none")]
Instance(obj) == [is_none |-> FALSE, obj |-> obj]

\* the empty list [] assigned to _location_iterator
EmptyListIterator == [is_none |-> FALSE, iters |-> <<>>]

\* deepcopy(self): _crerate_location_iterator is a generator function, and a
\* generator cannot be copied
deepcopy(obj) ==
    IF has_location_iterator(obj)
    THEN [obj |-> obj, res |-> Raise("TypeError", "deepcopy(generator)")]
    ELSE [obj |-> obj, res |-> Ok]

\* DataSource.to_read_only: ds is the clone the body works on; the body has no
\* return statement
to_read_only(obj, dictionary_md) ==
    LET d == deepcopy(obj)
    IN  IF d.res.outcome # "ok"
        THEN [obj |-> obj, ds |-> NoneValue, value |-> NoneValue, res |-> d.res]
        ELSE LET ds == [d.obj EXCEPT !.access_mode = "read-only",
                                     !.location_iterator = EmptyListIterator,
                                     !.md = NoneMd]
                 f == fetch_metadata(ds, 0, dictionary_md)
             IN  [obj |-> obj, ds |-> Instance(f.obj), value |-> NoneValue, res |-> f.res]

\* an argument for data_location: None (the default), or a location of n addresses
NoDataLocation == [is_none |-> TRUE, nloc |-> 0]
DataLocationOf(n) == [is_none |-> FALSE, nloc |-> n]

\* DataSource.read_only_copy(metadata, size, data_location, location_reader):
\* len(None) raises, `not len(data_location)` is true of the empty location only;
\* the body has no return statement
read_only_copy(obj, metadata, shape, data_location, location_reader) ==
    LET d == deepcopy(obj)
    IN  IF d.res.outcome # "ok"
        THEN [obj |-> obj, ds |-> NoneValue, value |-> NoneValue, res |-> d.res]
        ELSE LET ds1 == [d.obj EXCEPT !.access_mode = "read-only",
                                      !.location_iterator = EmptyListIterator,
                                      !.md = metadata, !.shape = shape]
             IN  IF data_location.is_none
                 THEN [obj |-> obj, ds |-> Instance(ds1), value |-> NoneValue,
                       res |-> Raise("TypeError", "len(None)")]
                 ELSE LET ds2 == IF data_location.nloc = 0
                                 THEN [ds1 EXCEPT !.nloc = data_location.nloc]
                                 ELSE ds1
                          ds3 == IF ~location_reader.is_none
                                 THEN [ds2 EXCEPT !.location_iterator = location_reader]
                                 ELSE ds2
                      IN  [obj |-> obj, ds |-> Instance(ds3), value |-> NoneValue,
                           res |-> Ok]

\* ds.to_read_only()
ToReadOnly ==
    \E names \in {CatalogNames, OtherNames} :
        LET r == to_read_only(self, Catalog(names))
        IN  /\ self' = r.obj
            /\ last' = [MethodRecord("to_read_only", self, r.res, <<>>)
                            EXCEPT !.value = r.value, !.receiver = self]
            /\ UNCHANGED <<store, exists, conn, log>>

\* ds.read_only_copy(metadata, size), with or without a data location and a
\* location reader
ReadOnlyCopy ==
    \E data_location \in {NoDataLocation, DataLocationOf(0), DataLocationOf(1)},
       location_reader \in {NoneIterator, EmptyListIterator} :
        LET r == read_only_copy(self, Catalog(CatalogNames), self.shape,
                                data_location, location_reader)
        IN  /\ self' = r.obj
            /\ last' = [MethodRecord("read_only_copy", self, r.res, <<>>)
                            EXCEPT !.value = r.value, !.receiver = self,
                                   !.flag = data_location.is_none]
            /\ UNCHANGED <<store, exists, conn, log>>

\* ----------------------------------------------------------------- existence
\* FileDataSource.exists: any(...) over the addresses; an address is in exists
\* when its path is there and is a regular file
FileDataSource_exists(obj, ex) == \E l \in 1..obj.nloc : l \in ex

\* ds.exists() on a file-backed instance
Exists ==
    /\ self.kind = "FileDataSource"
    /\ last' = [MethodRecord("exists", self, Ok, <<>>)
                    EXCEPT !.value = FileDataSource_exists(self, exists),
                           !.ex_before = exists]
    /\ UNCHANGED <<self, store, exists, conn, log>>

InitRead ==
    /\ store \in Stores
    /\ self \in FileReceivers(store) \cup VerticaReceivers
    /\ exists = {a \in Addr : Len(store[a]) > 0}
    /\ conn = NoConnection
    /\ last = NoOp
    /\ log = <<>>

NextRead ==
    \/ ReadAll \/ GetDataIterator \/ InitLocationIterator \/ FetchMetadata
    \/ RemoveRow \/ ToReadOnly \/ ReadOnlyCopy \/ Exists

SpecRead == InitRead /\ [][NextRead]_vars

\* ----------------------------------------------------------- claims on reading
\* the rows the addresses of the instance hold, in location order
PhysicalRows == ConcatTo(store, self.nloc)

\* C6: read_all() on a file-backed instance that has no location iterator yet,
\* whose addresses hold as many rows as the declared size and at least one,
\* returns: the result is the rows of the addresses, in location order.
C6_ReadAllDrains ==
    (last.op = "read_all" /\ last.kind = "FileDataSource" /\ ~last.had_iterator
        /\ PhysicalRows # <<>> /\ Len(PhysicalRows) = self.shape[1]) =>
        /\ last.outcome = "ok"
        /\ last.rows = PhysicalRows

C8_SchemaCheck ==
    (last.op = "get_data_iterator" /\ has_metadata(self) /\ last.pending # <<>>) =>
        IF self.md.names = DataColumns
        THEN last.outcome = "ok" /\ last.rows = last.pending
        ELSE /\ last.outcome = "ValueError" /\ last.site = "names-inconsistent"
             /\ last.rows = <<>>

\* ------------------------------------------------------------------ writing
\* for idx, l in enumerate(locations): data[idx].to_csv(l): the file of every
\* location 1..k is replaced by the rows of data[idx]
RECURSIVE WriteFiles(_, _, _)
WriteFiles(st, data, k) ==
    IF k = 0 THEN st ELSE [WriteFiles(st, data, k - 1) EXCEPT ![k] = data[k]]

\* FileDataSource.write(data, num_workers) with data a DataFrame of R rows
FileDataSource_write(obj, st, R, num_workers) ==
    LET L == obj.nloc
        n == R \div L
        \* data.groupby(np.arange(len(data)) // n): the runs of n rows; an integer
        \* array divided by 0 is all zeros, one group
        data == IF n = 0 THEN (IF R = 0 THEN <<>> ELSE <<Rows(R)>>)
                ELSE Chunks(Rows(R), n)
        k == Min(Len(data), L)
    IN  IF L = 0 THEN [store |-> st, res |-> Raise("ZeroDivisionError", "len(data) // 0")]
        ELSE IF Len(data) > 1 /\ num_workers > 1
        THEN \* pool.map over zip(data, locations)
             [store |-> WriteFiles(st, data, k), res |-> Ok]
        ELSE [store |-> WriteFiles(st, data, k),
              res |-> IF Len(data) < L THEN Raise("IndexError", "data[idx]") ELSE Ok]

\* chunker(seq, size)
chunker(seq, size) == Chunks(seq, size)

\* chunk.to_sql(name, con=self._backend_connection, if_exists='append') for the
\* chunks 1..k, chunk idx into location idx: without a session nothing is sent
RECURSIVE AppendTables(_, _, _)
AppendTables(st, data, k) ==
    IF k = 0 THEN st
    ELSE [AppendTables(st, data, k - 1) EXCEPT ![k] = @ \o data[k]]

to_sql(c, st, data, k) ==
    IF c.handle = "None" /\ k > 0
    THEN [store |-> st, res |-> Raise("AttributeError", "to_sql")]
    ELSE [store |-> AppendTables(st, data, k), res |-> Ok]

\* a group index of len(tbl) labels, the label of row i being (i - 1) % g
GroupsOf(tbl, g) ==
    [j \in 1..Min(g, Len(tbl)) |->
        SelectSeq(tbl, LAMBDA row : ((row - 1) % g) + 1 = j)]

\* VerticaDataSource.write(tbl, chunksize, group_variable) with tbl of R rows;
\* g = 0 stands for group_variable = None, g > 0 for a group index with g labels
VerticaDataSource_write(obj, st, c, R, g) ==
    LET L == obj.nloc
        tbl == Rows(R)
    IN  IF L > 1
        THEN IF g # 0
             THEN LET grouped == GroupsOf(tbl, g)
                  IN  IF Len(grouped) # L
                      THEN [store |-> st, res |-> Raise("ValueError", "number-of-groups")]
                      ELSE to_sql(c, st, grouped, L)
             ELSE LET chunks == chunker(tbl, L)
                      w == to_sql(c, st, chunks, Min(Len(chunks), L))
                  IN  IF w.res.outcome # "ok" THEN w
                      ELSE IF Len(chunks) > L
                      THEN [store |-> w.store, res |-> Raise("IndexError", "location[idx]")]
                      ELSE w
        ELSE IF L = 0 THEN [store |-> st, res |-> Raise("IndexError", "location[0]")]
        ELSE to_sql(c, st, <<tbl>>, 1)

TotalRows(st) == SumTo([a \in Addr |-> Len(st[a])], MaxLoc)

WriteRecord(obj, res, R, grouping, c, st) ==
    [MethodRecord("write", obj, res, Rows(R)) EXCEPT
        !.before = st, !.value = grouping, !.flag = (c.handle = "None")]

\* ds.write(data, num_workers) on a file-backed instance
FileWrite ==
    \E R \in 0..MaxRows, num_workers \in {1, 2} :
        LET r == FileDataSource_write(self, store, R, num_workers)
        IN  /\ self.kind = "FileDataSource"
            /\ store' = r.store
            /\ last' = WriteRecord(self, r.res, R, FALSE, conn, store)
            /\ UNCHANGED <<self, exists, conn, log>>

\* ds.write(tbl, group_variable=...) on a database-backed instance
VerticaWrite ==
    \E R \in 0..MaxRows, g \in 0..MaxLoc :
        LET r == VerticaDataSource_write(self, store, conn, R, g)
        IN  /\ self.kind = "VerticaDataSource"
            /\ TotalRows(store) + R <= MaxTableRows
            /\ store' = r.store
            /\ exists' = exists \cup {a \in Addr : r.store[a] # store[a]}
            /\ last' = WriteRecord(self, r.res, R, g # 0, conn, store)
            /\ UNCHANGED <<self, conn, log>>

ConnRecord(name, c, res, value) ==
    [NoOp EXCEPT !.op = name, !.kind = self.kind, !.outcome = res.outcome,
                 !.site = res.site, !.value = value, !.flag = (c.handle = "None")]

\* ds.open()
Open ==
    \E reachable \in BOOLEAN :
        LET r == open(conn, reachable)
        IN  /\ self.kind = "VerticaDataSource"
            /\ conn.sessions < MaxSessions
            /\ conn' = r.conn
            /\ last' = ConnRecord("open", conn, r.res, FALSE)
            /\ UNCHANGED <<self, store, exists, log>>

\* ds.close()
Close ==
    LET r == close(conn)
    IN  /\ self.kind = "VerticaDataSource"
        /\ conn' = r.conn
        /\ last' = ConnRecord("close", conn, r.res, FALSE)
        /\ UNCHANGED <<self, store, exists, log>>

\* ds.fetch(query): pd.read_sql gives the table or raises
Fetch ==
    \E reachable \in BOOLEAN, fails \in BOOLEAN :
        LET r == auto_open_close(conn, reachable,
                     IF fails THEN Raise("DatabaseError", "pd.read_sql") ELSE Ok)
        IN  /\ self.kind = "VerticaDataSource"
            /\ conn.sessions < MaxSessions
            /\ conn' = r.conn
            /\ last' = [ConnRecord("fetch", conn, r.res, FALSE) EXCEPT
                            !.remote_failed = (~reachable \/ fails)]
            /\ UNCHANGED <<self, store, exists, log>>

\* ds.execute(query): cur.execute gives nothing or raises
Execute ==
    \E reachable \in BOOLEAN, fails \in BOOLEAN :
        LET r == auto_open_close(conn, reachable,
                     IF fails THEN Raise("DatabaseError", "cur.execute") ELSE Ok)
        IN  /\ self.kind = "VerticaDataSource"
            /\ conn.sessions < MaxSessions
            /\ conn' = r.conn
            /\ last' = [ConnRecord("execute", conn, r.res, FALSE) EXCEPT
                            !.remote_failed = (~reachable \/ fails)]
            /\ UNCHANGED <<self, store, exists, log>>

\* ds.test_connection()
TestConnection ==
    \E reachable \in BOOLEAN :
        LET r == test_connection(conn, reachable)
        IN  /\ self.kind = "VerticaDataSource"
            /\ conn.sessions < MaxSessions
            /\ conn' = r.conn
            /\ last' = [ConnRecord("test_connection", conn, r.res, r.value) EXCEPT
                            !.remote_failed = ~reachable]
            /\ UNCHANGED <<self, store, exists, log>>

\* ds.drop_tables(tables): one DROP TABLE per table through execute, which opens
\* and closes a session of its own
DropTables ==
    \E tables \in SUBSET Addr, reachable \in BOOLEAN :
        LET d == drop_tables(MaxLoc, tables, exists, reachable)
        IN  /\ self.kind = "VerticaDataSource"
            /\ conn.sessions < MaxSessions
            /\ exists' = d.exists
            /\ store' = [a \in Addr |-> IF a \in exists \ d.exists THEN <<>> ELSE store[a]]
            /\ log' = d.log
            /\ conn' = IF tables = {} THEN conn
                       ELSE auto_open_close(conn, reachable, Ok).conn
            /\ last' = [ConnRecord("drop_tables", conn, d.res, FALSE) EXCEPT
                            !.remote_failed =
                                \E i \in 1..Len(d.log) : d.log[i].op = "drop-failed"]
            /\ UNCHANGED self

InitWrite ==
    /\ store \in {[a \in Addr |-> StoredRows(a, k)] : k \in {0, 1}}
    /\ self \in FileReceivers(store) \cup VerticaReceivers
    /\ exists = {a \in Addr : Len(store[a]) > 0}
    /\ conn = NoConnection
    /\ last = NoOp
    /\ log = <<>>

NextWrite ==
    FileWrite \/ VerticaWrite \/ Open \/ Close \/ Fetch \/ Execute \/ TestConnection

SpecWrite == InitWrite /\ [][NextWrite]_vars

\* ----------------------------------------------------------- claims on writing
\* the rows the last write put into location i
Written(i) ==
    IF last.kind = "FileDataSource" THEN store[i]
    ELSE SubSeq(store[i], Len(last.before[i]) + 1, Len(store[i]))

\* C1: a write(...) on an instance whose access mode is read-only fails, and the
\* contents of every location are after the call what they were before it.
C1_ReadOnlyRejectsWrite ==
    (last.op = "write" /\ last.mode = "read-only") =>
        /\ last.outcome # "ok"
        /\ store = last.before

\* C9: a write of R >= L rows to an instance with L > 1 locations and no grouping
\* variable (on a database-backed instance: with its session open) returns, the
\* rows written to the locations 1..L are, in location order, the R rows of the
\* input, each once, and the numbers of rows of two locations differ by at most 1.
C9_NearEqualPartitions ==
    (last.op = "write" /\ last.nloc > 1 /\ ~last.value
        /\ Len(last.rows) >= last.nloc
        /\ (last.kind = "VerticaDataSource" => ~last.flag)) =>
        /\ last.outcome = "ok"
        /\ ConcatTo([i \in 1..last.nloc |-> Written(i)], last.nloc) = last.rows
        /\ \A i, j \in 1..last.nloc : Len(Written(i)) <= Len(Written(j)) + 1

\* C10: when fetch, execute or the connection test probe, called with no session
\* held, has returned or raised, the backend connection handle is None again.
C10_NoSessionLeak ==
    (last.op \in {"fetch", "execute", "test_connection"} /\ last.flag) =>
        conn.handle = "None"

\* ------------------------------------------------------ remote operations
\* ds.create_table(metadata)
CreateTable ==
    \E metadata \in {Catalog(CatalogNames), Catalog(OtherNames)} :
        LET c == create_table(self, metadata, exists)
        IN  /\ self.kind = "VerticaDataSource"
            /\ exists' = c.exists
            /\ log' = c.log
            /\ last' = [ConnRecord("create_table", conn, c.res, metadata) EXCEPT
                            !.nloc = self.nloc, !.ex_before = exists]
            /\ UNCHANGED <<self, store, conn>>

InitRemote ==
    /\ store = [a \in Addr |-> StoredRows(a, 1)]
    /\ self \in VerticaReceivers
    /\ exists \in SUBSET Addr
    /\ conn = NoConnection
    /\ last = NoOp
    /\ log = <<>>

NextRemote ==
    DropTables \/ Fetch \/ Execute \/ TestConnection \/ Close \/ CreateTable

SpecRemote == InitRemote /\ [][NextRemote]_vars

\* C11: when a remote operation fails inside fetch, execute or drop_tables (the
\* server is not reached, the statement is refused, a DROP TABLE fails), the call
\* raises: it does not return normally.
C11_RemoteFailureRaised ==
    (last.op \in {"fetch", "execute", "drop_tables"} /\ last.remote_failed) =>
        last.outcome # "ok"

\* ------------------------------------------------------------------ strings
\* A str is the sequence of its characters; a word that no operation of the
\* program cuts ("SELECT", "T1", "X=1") counts as one character.
SP == " "

\* str.upper() of one character
upper(ch) ==
    CASE ch = "select" -> "SELECT"
      [] ch = "from" -> "FROM"
      [] ch = "where" -> "WHERE"
      [] ch = "a" -> "A"
      [] ch = "s" -> "S"
      [] ch = "t2" -> "T2"
      [] ch = "y=2" -> "Y=2"
      [] ch = "b" -> "B"
      [] ch = "x" -> "X"
      [] OTHER -> ch

\* str.upper()
Upper(s) == [i \in 1..Len(s) |-> upper(s[i])]

\* str.strip()
RECURSIVE LStrip(_)
LStrip(s) == IF s # <<>> /\ Head(s) = SP THEN LStrip(Tail(s)) ELSE s

RECURSIVE RStrip(_)
RStrip(s) ==
    IF s # <<>> /\ s[Len(s)] = SP THEN RStrip(SubSeq(s, 1, Len(s) - 1)) ELSE s

Strip(s) == RStrip(LStrip(s))

\* str.startswith(prefix)
StartsWith(s, prefix) ==
    Len(s) >= Len(prefix) /\ SubSeq(s, 1, Len(prefix)) = prefix

\* the positions at which sub occurs in s
Occurrences(s, sub) ==
    {i \in 1..(Len(s) + 1 - Len(sub)) : SubSeq(s, i, i + Len(sub) - 1) = sub}

\* sub in s
Contains(s, sub) == Occurrences(s, sub) # {}

\* str.split(sep)
RECURSIVE Split(_, _)
Split(s, sep) ==
    IF ~Contains(s, sep) THEN <<s>>
    ELSE LET i == CHOOSE k \in Occurrences(s, sep) :
                      \A j \in Occurrences(s, sep) : k <= j
         IN  <<SubSeq(s, 1, i - 1)>> \o Split(SubSeq(s, i + Len(sep), Len(s)), sep)

\* sep.join(parts)
RECURSIVE Join(_, _)
Join(parts, sep) ==
    IF Len(parts) = 0 THEN <<>>
    ELSE IF Len(parts) = 1 THEN parts[1]
    ELSE parts[1] \o sep \o Join(Tail(parts), sep)

\* '{}'.format(x) for x a numpy array of str: ['S.T1' 'S.T2']
ArrayText(items) ==
    <<"[">> \o Join([i \in 1..Len(items) |-> <<"'">> \o items[i] \o <<"'">>], <<SP>>)
            \o <<"]">>

\* '{}'.format(x) for x a list of str: ['S.T1', 'S.T2']
ListText(items) ==
    <<"[">> \o Join([i \in 1..Len(items) |-> <<"'">> \o items[i] \o <<"'">>],
                    <<",", SP>>)
            \o <<"]">>

\* ------------------------------------------------------------ data locations
\* an argument that is one str (scalar) or a list of str
Scalar(s) == [scalar |-> TRUE, items |-> <<s>>]
ListOf(ss) == [scalar |-> FALSE, items |-> ss]

\* DataLocation._get_list_from_input: is_listlike wraps a scalar into a list
get_list_from_input(input) == input.items

\* no location object
NoLocation == [cls |-> "none", module |-> "none", location |-> <<>>]

\* DataLocation.size
size(loc) == Len(loc.location)

\* DataLocation.to_string
to_string(loc) == loc.location

\* DatabaseTableLocation.get_table_name: the list to_string() gives in
\* database_location.py, the text __str__() gives in database_table_location.py
DatabaseTableLocation_get_table_name(loc) ==
    IF loc.module = "database_location"
    THEN [is_list |-> TRUE, names |-> to_string(loc), text |-> <<>>]
    ELSE [is_list |-> FALSE, names |-> <<>>, text |-> ArrayText(loc.location)]

\* DatabaseQueryLocation.get_table_name: what stands between ' FROM ' and the
\* next blank
DatabaseQueryLocation_get_table_name(loc) ==
    [is_list |-> TRUE,
     names |-> [i \in 1..size(loc) |->
                  LET query == Split(Upper(loc.location[i]), <<SP, "FROM", SP>>)[2]
                  IN  IF ~Contains(query, <<SP>>) THEN Strip(query)
                      ELSE Strip(Split(query, <<SP>>)[1])],
     text |-> <<>>]

get_table_name(loc) ==
    IF loc.cls = "DatabaseQueryLocation" THEN DatabaseQueryLocation_get_table_name(loc)
    ELSE DatabaseTableLocation_get_table_name(loc)

\* tbl_name[idx] for idx in range(len(tbl_name)): the elements of a list, the
\* characters of a str
Indexed(tbl_name) ==
    IF tbl_name.is_list THEN tbl_name.names
    ELSE [i \in 1..Len(tbl_name.text) |-> <<tbl_name.text[i]>>]

\* [schema name].[table name]
InvalidTableName(name) ==
    LET tbl_name_check == Split(name, <<".">>)
    IN  Len(tbl_name_check) # 2 \/ Len(tbl_name_check[1]) = 0
            \/ Len(tbl_name_check[2]) = 0

\* DatabaseLocation.check_table_name_syntax
check_table_name_syntax(loc) ==
    LET tbl_name == Indexed(get_table_name(loc))
    IN  IF \E idx \in 1..Len(tbl_name) : InvalidTableName(tbl_name[idx])
        THEN Raise("ValueError", "Invalid table name")
        ELSE Ok

\* DatabaseLocation.__init__
DatabaseLocation_init(cls, module, location) ==
    LET loc == [cls |-> cls, module |-> module,
                location |-> [i \in 1..Len(location) |-> Upper(location[i])]]
        chk == check_table_name_syntax(loc)
    IN  IF chk.outcome # "ok" THEN [loc |-> NoLocation, res |-> chk]
        ELSE [loc |-> loc, res |-> Ok]

\* DatabaseTableLocation.__init__, of either module
DatabaseTableLocation_init(module, input) ==
    LET items == get_list_from_input(input)
    IN  DatabaseLocation_init("DatabaseTableLocation", module,
                              [i \in 1..Len(items) |-> Strip(Upper(items[i]))])

\* reserved_keywords of DatabaseQueryLocation.__init__
reserved_keywords_NoLimit ==
    {<<"AS">>, <<"JOIN">>, <<"GROUP", SP, "BY">>, <<"PARTITION">>}
reserved_keywords ==
    {<<"AS">>, <<"JOIN">>, <<"GROUP", SP, "BY">>, <<"LIMIT">>, <<"PARTITION">>}

\* not q.startswith('SELECT ') or ' FROM ' not in q
InvalidQuery(q) ==
    ~StartsWith(q, <<"SELECT", SP>>) \/ ~Contains(q, <<SP, "FROM", SP>>)

\* any([' ' + k + ' ' in q for k in reserved_keywords])
UnsupportedQuery(q) ==
    \E k \in reserved_keywords : Contains(q, <<SP>> \o k \o <<SP>>)

\* DatabaseQueryLocation.__init__ (the same text in database_query_location.py
\* and in database_location.py); `raise ('Unsupported query...')` raises a str,
\* which is a TypeError
DatabaseQueryLocation_init(input) ==
    LET items == get_list_from_input(input)
        query == [i \in 1..Len(items) |-> Strip(items[i])]
        Bad(i) == InvalidQuery(Upper(query[i])) \/ UnsupportedQuery(Upper(query[i]))
    IN  IF \E i \in 1..Len(query) : Bad(i)
        THEN LET i == CHOOSE k \in 1..Len(query) :
                          Bad(k) /\ \A j \in 1..(k - 1) : ~Bad(j)
             IN  [loc |-> NoLocation,
                  res |-> IF InvalidQuery(Upper(query[i]))
                          THEN Raise("ValueError", "Invalid query")
                          ELSE Raise("TypeError", "raise str: Unsupported query")]
        ELSE DatabaseLocation_init("DatabaseQueryLocation", "database_query_location",
                                   query)

\* DatabaseQueryLocation.get_where_clause; DatabaseLocation.get_where_clause
\* gives an empty str per address
get_where_clause(loc) ==
    [i \in 1..size(loc) |->
        IF loc.cls # "DatabaseQueryLocation" THEN <<>>
        ELSE LET query == Upper(loc.location[i])
             IN  IF ~Contains(query, <<SP, "WHERE", SP>>) THEN <<>>
                 ELSE Join(Tail(Split(query, <<SP, "WHERE", SP>>)), <<SP>>)]

\* the projection list of one statement in DatabaseQueryLocation.get_variable_names
Projection(stmt) ==
    LET head == Strip(Split(Upper(stmt), <<SP, "FROM", SP>>)[1])
        var_name == Join(Split(head, <<"SELECT", SP>>), <<>>)
    IN  IF var_name # <<"*">>
        THEN LET vs == Split(var_name, <<",">>)
             IN  [i \in 1..Len(vs) |-> Strip(vs[i])]
        ELSE <<>>

\* DatabaseQueryLocation.get_variable_names
get_variable_names(loc) ==
    IF \E idx \in 2..size(loc) : Projection(loc.location[1]) # Projection(loc.location[idx])
    THEN [names |-> <<>>, res |-> Raise("ValueError", "Inconsistent variable names")]
    ELSE [names |-> IF size(loc) = 0 THEN <<>> ELSE Projection(loc.location[size(loc)]),
          res |-> Ok]

\* len(where_clause_existing) != len(where_clause_input)
SizeMismatch(where_clause_existing, where_clause_input) ==
    Len(where_clause_existing) # Len(where_clause_input)

\* append_keyword = ' AND ' if len(where_clause_existing) else ' WHERE '
append_keyword(where_clause_existing, idx) ==
    IF Len(where_clause_existing) # 0 THEN <<SP, "AND", SP>> ELSE <<SP, "WHERE", SP>>

\* the statements DatabaseQueryLocation.append_where_clause forms:
\* '{location} {keyword} {where}'
select_stmt(loc, where_clause_input) ==
    LET where_clause_existing == get_where_clause(loc)
    IN  [idx \in 1..Len(where_clause_existing) |->
            to_string(loc)[idx] \o <<SP>> \o append_keyword(where_clause_existing, idx)
                \o <<SP>> \o where_clause_input[idx]]

\* the method with its statements assigned to the receiver
DatabaseQueryLocation_append_where_clause_InPlace(loc, input) ==
    LET items == get_list_from_input(input)
        where_clause_input == [i \in 1..Len(items) |-> Strip(items[i])]
    IN  IF SizeMismatch(get_where_clause(loc), where_clause_input)
        THEN [self |-> loc, result |-> NoLocation,
              res |-> Raise("ValueError", "Size mismatch in WHERE clauses")]
        ELSE LET r == DatabaseQueryLocation_init(
                          ListOf(select_stmt(loc, where_clause_input)))
             IN  [self |-> [loc EXCEPT !.location = select_stmt(loc, where_clause_input)],
                  result |-> r.loc, res |-> r.res]

\* DatabaseQueryLocation.append_where_clause: self is the receiver after the call,
\* result the location returned
DatabaseQueryLocation_append_where_clause(loc, input) ==
    LET items == get_list_from_input(input)
        where_clause_input == [i \in 1..Len(items) |-> Strip(items[i])]
    IN  IF SizeMismatch(get_where_clause(loc), where_clause_input)
        THEN [self |-> loc, result |-> NoLocation,
              res |-> Raise("ValueError", "Size mismatch in WHERE clauses")]
        ELSE LET r == DatabaseQueryLocation_init(
                          ListOf(select_stmt(loc, where_clause_input)))
             IN  [self |-> loc, result |-> r.loc, res |-> r.res]

\* self.size() == 1 and len(where_clause) > 1
Broadcasts(loc, where_clause) == size(loc) = 1 /\ Len(where_clause) > 1

\* self.size() == len(where_clause)
Pairs_OrOne(loc, where_clause) ==
    size(loc) = Len(where_clause) \/ Len(where_clause) = 1
Pairs(loc, where_clause) == size(loc) = Len(where_clause)

\* DatabaseTableLocation.append_where_clause, of either module; the texts
\* '{}'.format(t) of the elements of tbl_name are zipped with the predicates
DatabaseTableLocation_append_where_clause(loc, input) ==
    LET where_clause == get_list_from_input(input)
        name == get_table_name(loc)
        tbl_name ==
            IF Broadcasts(loc, where_clause)
            THEN [i \in 1..Len(where_clause) |->
                      IF name.is_list THEN ListText(name.names) ELSE name.text]
            ELSE Indexed(name)
        n == Min(Len(tbl_name), Len(where_clause))
        database_query ==
            [i \in 1..n |-> <<"SELECT", SP, "*", SP, "FROM", SP>> \o tbl_name[i]
                              \o <<SP, "WHERE", SP>> \o Upper(where_clause[i])]
    IN  IF ~Broadcasts(loc, where_clause) /\ ~Pairs(loc, where_clause)
        THEN [self |-> loc, result |-> NoLocation,
              res |-> Raise("TypeError", "raise str: Unsupported case")]
        ELSE LET r == DatabaseQueryLocation_init(ListOf(database_query))
             IN  [self |-> loc, result |-> r.loc, res |-> r.res]

append_where_clause(loc, input) ==
    IF loc.cls = "DatabaseQueryLocation"
    THEN DatabaseQueryLocation_append_where_clause(loc, input)
    ELSE DatabaseTableLocation_append_where_clause(loc, input)

\* ------------------------------------------------- operations on locations
\* the lists of at most n elements of S
SeqsUpTo(S, n) == UNION {[1..k -> S] : k \in 0..n}

\* table names given to DatabaseTableLocation(...)
TableStrings ==
    {<<"S", ".", "T1">>, <<"s", ".", "t2">>, <<SP, "S", ".", "T1">>, <<"T1">>,
     <<"S", ".", "T1", ".", "T2">>, <<".", "T1">>, <<"S", ".", SP>>}

TableInputs ==
    {Scalar(t) : t \in TableStrings}
        \cup {ListOf(ts) : ts \in SeqsUpTo(TableStrings, MaxElems)}

\* statements given to DatabaseQueryLocation(...)
QueryStrings ==
    {<<"SELECT", SP, "*", SP, "FROM", SP, "S", ".", "T1">>,
     <<"select", SP, "a", SP, "from", SP, "s", ".", "t2">>,
     <<"SELECT", SP, "*", SP, "FROM", SP, "S", ".", "T1", SP, "WHERE", SP, "X=1">>,
     <<"SELECT", SP, "*", SP, "S", ".", "T1">>,
     <<"DELETE", SP, "FROM", SP, "S", ".", "T1">>,
     <<"SELECT", SP, "*", SP, "FROM", SP, "S", ".", "T1", SP, "LIMIT", SP, "1">>,
     <<"SELECT", SP, "*", SP, "FROM", SP, "S", ".", "T1", SP, "LIMIT">>,
     <<"SELECT", SP, "*", SP, "FROM", SP, "T1">>,
     <<"SELECT", SP, "*", SP, "FROM", SP, "S", ".", "T1", SP, "GROUP", SP, "BY", SP, "A">>,
     <<SP, "SELECT", SP, "*", SP, "FROM", SP, "S", ".", "T1">>}

QueryInputs ==
    {Scalar(q) : q \in QueryStrings}
        \cup {ListOf(qs) : qs \in SeqsUpTo(QueryStrings, MaxElems)}

\* predicates given to append_where_clause(...)
PredicateStrings == {<<"X=1">>, <<"y=2">>}

PredicateInputs ==
    {Scalar(w) : w \in PredicateStrings}
        \cup {ListOf(ws) : ws \in SeqsUpTo(PredicateStrings, MaxPreds)}

\* the record of the last operation on a location
NoLocOp ==
    [op |-> "none", cls |-> "none", module |-> "none", input |-> ListOf(<<>>),
     outcome |-> "ok", site |-> "", before |-> NoLocation, result |-> NoLocation,
     names |-> <<>>]

LocRecord(name, cls, module, input, res) ==
    [NoLocOp EXCEPT !.op = name, !.cls = cls, !.module = module, !.input = input,
                    !.outcome = res.outcome, !.site = res.site, !.before = self]

\* DatabaseTableLocation(location), the class of database_location.py or the
\* one of database_table_location.py; the one location of a behaviour is
\* constructed first
ConstructTableLocation ==
    /\ self = NoLocation /\ last.op = "none"
    /\ \E module \in {"database_location", "database_table_location"},
          input \in TableInputs :
            LET r == DatabaseTableLocation_init(module, input)
            IN  /\ self' = r.loc
                /\ last' = LocRecord("__init__", "DatabaseTableLocation", module,
                                     input, r.res)
    /\ UNCHANGED <<store, exists, conn, log>>

\* DatabaseQueryLocation(query)
ConstructQueryLocation ==
    /\ self = NoLocation /\ last.op = "none"
    /\ \E input \in QueryInputs :
            LET r == DatabaseQueryLocation_init(input)
            IN  /\ self' = r.loc
                /\ last' = LocRecord("__init__", "DatabaseQueryLocation",
                                     "database_query_location", input, r.res)
    /\ UNCHANGED <<store, exists, conn, log>>

\* location.append_where_clause(where_clause)
AppendWhereClause ==
    /\ self # NoLocation
    /\ \E input \in PredicateInputs :
            LET r == append_where_clause(self, input)
            IN  /\ self' = r.self
                /\ last' = [LocRecord("append_where_clause", self.cls, self.module,
                                      input, r.res) EXCEPT !.result = r.result]
    /\ UNCHANGED <<store, exists, conn, log>>

\* location.get_variable_names()
GetVariableNames ==
    LET r == get_variable_names(self)
    IN  /\ self.cls = "DatabaseQueryLocation"
        /\ last' = [LocRecord("get_variable_names", self.cls, self.module,
                              ListOf(<<>>), r.res) EXCEPT !.names = r.names]
        /\ UNCHANGED <<self, store, exists, conn, log>>

InitLoc ==
    /\ self = NoLocation
    /\ store = [a \in Addr |-> <<>>]
    /\ exists = {}
    /\ conn = NoConnection
    /\ last = NoLocOp
    /\ log = <<>>

NextLoc ==
    ConstructTableLocation \/ ConstructQueryLocation \/ AppendWhereClause
        \/ GetVariableNames

SpecLoc == InitLoc /\ [][NextLoc]_vars

\* ---------------------------------------------------------- claims on locations
\* the elements of the last input, upper-cased and stripped
Normalised == [i \in 1..Len(last.input.items) |-> Strip(Upper(last.input.items[i]))]

TableCtorRan == last.op = "__init__" /\ last.cls = "DatabaseTableLocation"

\* C12: the construction of a DatabaseTableLocation returns an object if and
\* only if every element of the input (upper-cased and stripped, as the
\* constructor stores it), split on '.', has exactly two parts, both non-empty.
C12_TableNameSyntax ==
    TableCtorRan =>
        /\ (last.outcome = "ok") =
               (\A i \in 1..Len(Normalised) : ~InvalidTableName(Normalised[i]))
        /\ (last.outcome # "ok" => self = NoLocation)

\* C13: get_table_name() of a DatabaseTableLocation built from schema.table
\* names is the list of the upper-cased names, one per address, in input order.
C13_TableNameRoundTrip ==
    (TableCtorRan /\ \A i \in 1..Len(Normalised) : ~InvalidTableName(Normalised[i])) =>
        /\ self # NoLocation
        /\ get_table_name(self).is_list
        /\ get_table_name(self).names = Normalised

QueryCtorRan == last.op = "__init__" /\ last.cls = "DatabaseQueryLocation"

\* the statements of the last input, stripped and upper-cased
Statements == [i \in 1..Len(last.input.items) |-> Upper(Strip(last.input.items[i]))]

DisallowedKeywords ==
    {<<"AS">>, <<"JOIN">>, <<"GROUP", SP, "BY">>, <<"LIMIT">>, <<"PARTITION">>}

HasDisallowedKeyword(q) ==
    \E k \in DisallowedKeywords : Contains(q, <<SP>> \o k \o <<SP>>)

\* SELECT ... FROM schema.table, the table name ending the statement or followed
\* by a blank
SelectFromTable(q) ==
    /\ StartsWith(q, <<"SELECT", SP>>)
    /\ Contains(q, <<SP, "FROM", SP>>)
    /\ LET name == Split(Split(q, <<SP, "FROM", SP>>)[2], <<SP>>)[1]
           parts == Split(name, <<".">>)
       IN  Len(parts) = 2 /\ parts[1] # <<>> /\ parts[2] # <<>>

AppendRan == last.op = "append_where_clause"

\* the predicates of the last append_where_clause, stripped and upper-cased
Predicates == [i \in 1..Len(last.input.items) |-> Upper(Strip(last.input.items[i]))]

\* C15: for a DatabaseQueryLocation q whose statements hold no WHERE clause and
\* a list p of as many predicates, q.append_where_clause(p) returns a location
\* whose get_where_clause() is p, upper-cased, element by element.
C15_WhereRoundTrip ==
    (AppendRan /\ last.cls = "DatabaseQueryLocation"
        /\ Len(Predicates) = size(last.before)
        /\ \A i \in 1..size(last.before) : get_where_clause(last.before)[i] = <<>>) =>
        /\ last.outcome = "ok"
        /\ get_where_clause(last.result) = Predicates

\* the words of a text: its pieces between blanks
Words(text) == SelectSeq(Split(text, <<SP>>), LAMBDA w : w # <<>>)

\* C16: append_where_clause on a DatabaseQueryLocation with as many predicates
\* as statements returns one statement per statement, in order: the words of
\* the statement, then AND if the statement holds a WHERE clause and WHERE if
\* it holds none, then the predicate.
C16_KeywordPerStatement ==
    (AppendRan /\ last.cls = "DatabaseQueryLocation"
        /\ Len(Predicates) = size(last.before)) =>
        /\ last.outcome = "ok"
        /\ size(last.result) = size(last.before)
        /\ \A i \in 1..size(last.before) :
              Words(last.result.location[i]) =
                  Words(last.before.location[i])
                      \o <<IF Contains(last.before.location[i], <<SP, "WHERE", SP>>)
                           THEN <<"AND">> ELSE <<"WHERE">>>>
                      \o Words(Predicates[i])

\* C17: append_where_clause on a DatabaseTableLocation of 1 table with N >= 1
\* predicates, or of N tables with N predicates, returns a location of exactly N
\* statements, the i-th being SELECT * FROM {table} WHERE {predicate}, with the
\* table of position i (the one table when there is one) and the predicate of
\* position i upper-cased.
C17_TableToQuery ==
    (AppendRan /\ last.cls = "DatabaseTableLocation"
        /\ \/ (size(last.before) = 1 /\ Len(last.input.items) >= 1)
           \/ size(last.before) = Len(last.input.items)) =>
        /\ last.outcome = "ok"
        /\ size(last.result) = Len(last.input.items)
        /\ \A i \in 1..Len(last.input.items) :
              last.result.location[i] =
                  <<"SELECT", SP, "*", SP, "FROM", SP>>
                      \o last.before.location[IF size(last.before) = 1 THEN 1 ELSE i]
                      \o <<SP, "WHERE", SP>> \o Upper(last.input.items[i])

\* C18: append_where_clause raises and returns no location when the number of
\* predicates does not fit the number of addresses: on a DatabaseQueryLocation
\* when the two numbers differ, on a DatabaseTableLocation when it is neither
\* 1 table with N >= 1 predicates nor N tables with N predicates.
C18_CountMismatchRaises ==
    AppendRan =>
        /\ (last.cls = "DatabaseQueryLocation"
                /\ size(last.before) # Len(last.input.items)
               => last.outcome # "ok" /\ last.result = NoLocation)
        /\ (last.cls = "DatabaseTableLocation"
                /\ ~(size(last.before) = 1 /\ Len(last.input.items) >= 1)
                /\ size(last.before) # Len(last.input.items)
               => last.outcome # "ok" /\ last.result = NoLocation)

C18_Witness ==
    /\ AppendRan /\ last.cls = "DatabaseTableLocation"
    /\ size(last.before) = 2 /\ Len(last.input.items) = 3
    /\ last.outcome # "ok" /\ last.result = NoLocation

\* C19: append_where_clause leaves its receiver as it was, whether it returns or
\* raises: the same addresses, hence the same size(), get_table_name() and
\* get_where_clause().
C19_AppendIsPure ==
    AppendRan =>
        /\ self = last.before
        /\ size(self) = size(last.before)
        /\ get_table_name(self) = get_table_name(last.before)
        /\ get_where_clause(self) = get_where_clause(last.before)

C19_Witness ==
    /\ AppendRan /\ last.cls = "DatabaseQueryLocation" /\ last.outcome = "ok"
    /\ size(self) = 2 /\ size(last.result) = 2
    /\ last.result.location # self.location
    /\ self = last.before

\* C20: the construction of a DatabaseQueryLocation from several statements
\* whose projection lists are not all the same raises.
C20_ConsistentProjections ==
    (QueryCtorRan
        /\ \E i \in 2..Len(Statements) : Projection(Statements[1]) # Projection(Statements[i])) =>
        /\ last.outcome # "ok"
        /\ self = NoLocation

\* ------------------------------------------------- claims on the read-only copies
\* C26: to_read_only() and read_only_copy(...) hand out an instance in read-only
\* mode with the receiver's location, and leave the receiver as it was.
C26_ReadOnlyCopy ==
    last.op \in {"to_read_only", "read_only_copy"} =>
        /\ last.outcome = "ok"
        /\ ~last.value.is_none
        /\ last.value.obj.access_mode = "read-only"
        /\ last.value.obj.nloc = last.receiver.nloc
        /\ self = last.receiver

\* C27: read_all() on a file-backed instance whose addresses hold as many rows as
\* the declared size, and at least one, returns these rows whether or not an
\* earlier read left an iterator behind, and leaves the instance without a
\* location iterator.
C27_IteratorDiscarded ==
    (last.op = "read_all" /\ last.kind = "FileDataSource"
        /\ PhysicalRows # <<>> /\ Len(PhysicalRows) = self.shape[1]) =>
        /\ last.outcome = "ok"
        /\ last.rows = PhysicalRows
        /\ ~has_location_iterator(self)

\* C28: exists() on a file-backed instance is true only if every address of its
\* location is an existing regular file, and false as soon as one is not.
C28_AllFilesExist ==
    (last.op = "exists" /\ last.kind = "FileDataSource") =>
        (last.value = TRUE => \A l \in 1..self.nloc : l \in exists)

\* C25: create_table(metadata) on a table location, with a catalog whose
\* variables all have a type, returns after exactly one CREATE TABLE statement
\* per address of the location, in location order.
C25_OneCreatePerLocation ==
    last.op = "create_table" =>
        /\ last.outcome = "ok"
        /\ log = [i \in 1..last.nloc |-> LogEntry("create", i)]

\* ------------------------------------------------------ class MetadataCatalog
\* the seven type columns
Types == {"BOOLEAN", "INTEGER", "FLOAT", "DATE", "TIME", "TIMESTAMP", "TEXT"}

\* the code point order of the characters of variable names
Ord(ch) ==
    CASE ch = "A" -> 1 [] ch = "B" -> 2 [] ch = "X" -> 3
      [] ch = "a" -> 4 [] ch = "b" -> 5 [] ch = "x" -> 6
      [] OTHER -> 7

\* s <= t for str
RECURSIVE StrLeq(_, _)
StrLeq(s, t) ==
    IF s = <<>> THEN TRUE
    ELSE IF t = <<>> THEN FALSE
    ELSE IF Head(s) = Head(t) THEN StrLeq(Tail(s), Tail(t))
    ELSE Ord(Head(s)) < Ord(Head(t))

\* a metadata table: None, or a DataFrame with one row per variable (the index
\* is the name; flags are the IS_* columns that are true). plain_columns tells
\* whether the table also has the columns BOOLEAN .. TEXT, with the values of
\* IS_BOOLEAN .. IS_TEXT
NoneFrame == [is_none |-> TRUE, plain_columns |-> FALSE, rows |-> <<>>]
Frame(plain_columns, rows) ==
    [is_none |-> FALSE, plain_columns |-> plain_columns, rows |-> rows]

NoCatalog == [is_none |-> TRUE, md |-> <<>>, is_case_sensitive |-> FALSE]

\* ~b for a bool b is the int -2 or -1
invert(b) == IF b THEN 0 - 2 ELSE 0 - 1

\* md.loc[md[t], 'TYPE'] = t for t in a set: the flag assigned last stays, nan
\* when no flag is true
TypeChoices(flags) == IF flags = {} THEN {"nan"} ELSE flags

\* the tables the loop over the seven types can leave
WithTypes(rows) ==
    {[i \in 1..Len(rows) |->
         [name |-> rows[i].name, flags |-> rows[i].flags, fmt |-> rows[i].fmt,
          type |-> ty[i]]] :
        ty \in {f \in [1..Len(rows) -> Types \cup {"nan"}] :
                   \A i \in 1..Len(rows) : f[i] \in TypeChoices(rows[i].flags)}}

\* md.index.str.upper()
UpperIndex(rows) ==
    [i \in 1..Len(rows) |-> [rows[i] EXCEPT !.name = Upper(rows[i].name)]]

\* md.sort_index(): the rows in the order of their names, rows of one name in
\* any order
sort_index(rows) ==
    {[i \in 1..Len(rows) |-> rows[p[i]]] :
        p \in {q \in [1..Len(rows) -> 1..Len(rows)] :
                  /\ \A i, j \in 1..Len(rows) : q[i] = q[j] => i = j
                  /\ \A i \in 1..(Len(rows) - 1) :
                        StrLeq(rows[q[i]].name, rows[q[i + 1]].name)}}

\* MetadataCatalog.__init__(md, is_case_sensitive): the results it can have
MetadataCatalog_init(md, is_case_sensitive) ==
    IF md.is_none \/ Len(md.rows) = 0
    THEN {[cat |-> NoCatalog, res |-> Raise("ValueError", "Invalid metadata table")]}
    ELSE IF ~md.plain_columns
    THEN {[cat |-> NoCatalog, res |-> Raise("KeyError", "md[t]")]}
    ELSE {[cat |-> [is_none |-> FALSE, md |-> sorted,
                    is_case_sensitive |-> is_case_sensitive],
           res |-> Ok] :
            sorted \in UNION {sort_index(IF invert(is_case_sensitive) # 0
                                         THEN UpperIndex(typed) ELSE typed) :
                                typed \in WithTypes(md.rows)}}

\* MetadataCatalog.get_variable_names
MetadataCatalog_get_variable_names(cat) == [i \in 1..Len(cat.md) |-> cat.md[i].name]

\* the decorator _check_varname: the names asked for, as the caller spelt them,
\* are looked up in the index; shown are the names the error displays
check_varname(cat, input) ==
    LET var_name == get_list_from_input(input)
        known(n) == \E i \in 1..Len(cat.md) : cat.md[i].name = n
        unknown == SelectSeq(var_name, LAMBDA n : ~known(n))
    IN  IF unknown # <<>>
        THEN [res |-> Raise("ValueError", "Unknown variable(s)"), shown |-> unknown]
        ELSE [res |-> Ok, shown |-> <<>>]

\* self._md.loc[var_name, column]: the values of the rows of each name asked for
RECURSIVE loc(_, _, _)
loc(rows, var_name, column) ==
    IF var_name = <<>> THEN <<>>
    ELSE LET hit == SelectSeq(rows, LAMBDA r : r.name = Head(var_name))
         IN  [i \in 1..Len(hit) |->
                 CASE column = "TYPE" -> hit[i].type
                   [] column = "DATETIME_FORMAT" -> hit[i].fmt
                   [] OTHER -> hit[i]]
             \o loc(rows, Tail(var_name), column)

\* MetadataCatalog.get_type and get_datetime_format, both under _check_varname
get_column(cat, input, column) ==
    LET c == check_varname(cat, input)
    IN  IF c.res.outcome # "ok" THEN [value |-> <<>>, res |-> c.res, shown |-> c.shown]
        ELSE [value |-> loc(cat.md, get_list_from_input(input), column),
              res |-> Ok, shown |-> <<>>]

get_type(cat, input) == get_column(cat, input, "TYPE")
get_datetime_format(cat, input) == get_column(cat, input, "DATETIME_FORMAT")

\* MetadataCatalog.extract_sub_catalog: with `if len(var_name)` a non-empty
\* argument gives a catalog of the whole table, an empty one selects no row;
\* the copy of the table has the columns the receiver's table had
extract_sub_catalog(cat, input) ==
    LET c == check_varname(cat, input)
        var_name == get_list_from_input(input)
    IN  IF c.res.outcome # "ok"
        THEN {[cat |-> NoCatalog, res |-> c.res, shown |-> c.shown]}
        ELSE {[cat |-> r.cat, res |-> r.res, shown |-> <<>>] :
                r \in MetadataCatalog_init(
                         Frame(TRUE, IF Len(var_name) # 0 THEN cat.md
                                     ELSE loc(cat.md, var_name, "")),
                         cat.is_case_sensitive)}

\* MetadataCatalog._check_type
check_type(cat) == [i \in 1..Len(cat.md) |-> Cardinality(cat.md[i].flags) = 1]

\* bool(series), which `or`, `and` and `not` ask for: a Series has no truth value
SeriesTruth(series) == Raise("ValueError", "truth value of a Series is ambiguous")

\* MetadataCatalog.check_metadata_completeness
check_metadata_completeness(cat) ==
    LET has_one_type_only == check_type(cat)
        requires_datetime_format ==
            [i \in 1..Len(cat.md) |->
                cat.md[i].flags \cap {"DATE", "TIME", "TIMESTAMP"} # {}]
        \* ~requires_datetime_format or (...)
        t == SeriesTruth([i \in 1..Len(cat.md) |-> ~requires_datetime_format[i]])
    IN  IF t.outcome # "ok" THEN [res |-> t, shown |-> <<>>]
        ELSE LET is_complete ==
                     [i \in 1..Len(cat.md) |->
                         has_one_type_only[i]
                             /\ (~requires_datetime_format[i] \/ cat.md[i].fmt # "")]
             IN  IF \E i \in 1..Len(cat.md) : ~is_complete[i]
                 \* var_name(~is_complete) calls the index
                 THEN [res |-> Raise("TypeError", "var_name(~is_complete)"),
                       shown |-> <<>>]
                 ELSE [res |-> Ok, shown |-> <<>>]

\* ------------------------------------------------- operations on catalogs
\* the names of the variables of a table
CatNames == {<<"a">>, <<"A">>, <<"B", "b">>}

\* the IS_* columns that are true in one row
FlagSets == {{}, {"INTEGER"}, {"DATE"}, {"TEXT"}, {"INTEGER", "FLOAT"}}

\* the DATETIME_FORMAT of one row
Formats == {"", "yyyy-MM-dd"}

FrameRows == [name : CatNames, flags : FlagSets, fmt : Formats]

\* the tables given to MetadataCatalog(...): None, the empty table, and the
\* tables of at most MaxVars variables of different names
Frames ==
    {NoneFrame}
      \cup {Frame(pc, rows) :
              pc \in BOOLEAN,
              rows \in {r \in SeqsUpTo(FrameRows, MaxVars) :
                           \A i, j \in 1..Len(r) : r[i].name = r[j].name => i = j}}

\* the names given to a lookup
LookupNames == {<<"a">>, <<"A">>, <<"b", "b">>, <<"B", "B">>, <<"x">>}

LookupInputs ==
    {Scalar(n) : n \in LookupNames}
        \cup {ListOf(ns) : ns \in SeqsUpTo(LookupNames, MaxVars)}

\* the record of the last operation on a catalog
NoCatOp ==
    [op |-> "none", frame |-> NoneFrame, flag |-> FALSE, input |-> ListOf(<<>>),
     outcome |-> "ok", site |-> "", before |-> NoCatalog, result |-> NoCatalog,
     value |-> <<>>, shown |-> <<>>]

CatRecord(name, input, res) ==
    [NoCatOp EXCEPT !.op = name, !.input = input, !.outcome = res.outcome,
                    !.site = res.site, !.before = self]

\* MetadataCatalog(md, is_case_sensitive); the one catalog of a behaviour is
\* constructed first
ConstructCatalog ==
    /\ self = NoCatalog /\ last.op = "none"
    /\ \E md \in Frames, is_case_sensitive \in BOOLEAN :
         \E r \in MetadataCatalog_init(md, is_case_sensitive) :
            /\ self' = r.cat
            /\ last' = [CatRecord("__init__", ListOf(<<>>), r.res) EXCEPT
                            !.frame = md, !.flag = is_case_sensitive]
    /\ UNCHANGED <<store, exists, conn, log>>

\* catalog.get_type(var_name), catalog.get_datetime_format(var_name)
Lookup ==
    /\ ~self.is_none
    /\ \E input \in LookupInputs, method \in {"get_type", "get_datetime_format"} :
         LET r == IF method = "get_type" THEN get_type(self, input)
                  ELSE get_datetime_format(self, input)
         IN  last' = [CatRecord(method, input, r.res) EXCEPT
                          !.value = r.value, !.shown = r.shown]
    /\ UNCHANGED <<self, store, exists, conn, log>>

\* catalog.extract_sub_catalog(var_name)
ExtractSubCatalog ==
    /\ ~self.is_none
    /\ \E input \in LookupInputs :
         \E r \in extract_sub_catalog(self, input) :
            last' = [CatRecord("extract_sub_catalog", input, r.res) EXCEPT
                         !.result = r.cat, !.shown = r.shown]
    /\ UNCHANGED <<self, store, exists, conn, log>>

\* catalog.check_metadata_completeness()
CheckMetadataCompleteness ==
    /\ ~self.is_none
    /\ LET r == check_metadata_completeness(self)
       IN  last' = [CatRecord("check_metadata_completeness", ListOf(<<>>), r.res)
                        EXCEPT !.shown = r.shown]
    /\ UNCHANGED <<self, store, exists, conn, log>>

InitCat ==
    /\ self = NoCatalog
    /\ store = [a \in Addr |-> <<>>]
    /\ exists = {}
    /\ conn = NoConnection
    /\ last = NoCatOp
    /\ log = <<>>

NextCat ==
    ConstructCatalog \/ Lookup \/ ExtractSubCatalog \/ CheckMetadataCompleteness

SpecCat == InitCat /\ [][NextCat]_vars

\* ----------------------------------------------------------- claims on catalogs
\* the rows of a catalog that are complete: exactly one type flag and, for a
\* date, time or timestamp, a format
CompleteRow(r) ==
    /\ Cardinality(r.flags) = 1
    /\ (r.flags \cap {"DATE", "TIME", "TIMESTAMP"} # {} => r.fmt # "")

\* C21: check_metadata_completeness() returns when every variable of the catalog
\* has exactly one type flag and, if it is a date, time or timestamp, a non-empty
\* format; otherwise it raises the invalid-metadata error, which names the
\* variables that are not complete.
C21_Completeness ==
    last.op = "check_metadata_completeness" =>
        IF \A i \in 1..Len(self.md) : CompleteRow(self.md[i])
        THEN last.outcome = "ok"
        ELSE /\ last.outcome = "ValueError"
             /\ last.shown = [i \in 1..Len(SelectSeq(self.md, LAMBDA r : ~CompleteRow(r))) |->
                                 SelectSeq(self.md, LAMBDA r : ~CompleteRow(r))[i].name]

\* the name, the type flags and the format of a row
RowData(r) == [name |-> r.name, flags |-> r.flags, fmt |-> r.fmt]

\* the names asked for are names of the catalog as they are stored, each once,
\* and no two variables of the catalog have the same name
StoredNamesAsked ==
    LET asked == last.input.items
    IN  /\ asked # <<>>
        /\ \A i, j \in 1..Len(last.before.md) :
              last.before.md[i].name = last.before.md[j].name => i = j
        /\ \A i, j \in 1..Len(asked) : asked[i] = asked[j] => i = j
        /\ \A i \in 1..Len(asked) :
              \E k \in 1..Len(last.before.md) : last.before.md[k].name = asked[i]

\* C22: extract_sub_catalog(names), for a non-empty list of different names of
\* the catalog, returns a catalog that has one row per name asked for and no
\* other, each row as it is in the parent, and leaves the parent as it was.
C22_SubCatalog ==
    (last.op = "extract_sub_catalog" /\ StoredNamesAsked) =>
        /\ last.outcome = "ok"
        /\ ~last.result.is_none
        /\ {last.result.md[i].name : i \in 1..Len(last.result.md)}
              = {last.input.items[i] : i \in 1..Len(last.input.items)}
        /\ Len(last.result.md) = Len(last.input.items)
        /\ {RowData(last.result.md[i]) : i \in 1..Len(last.result.md)}
              = {RowData(last.before.md[k]) : k \in {j \in 1..Len(last.before.md) :
                    \E i \in 1..Len(last.input.items) :
                        last.before.md[j].name = last.input.items[i]}}
        /\ self = last.before

\* C23: in a catalog that is not case sensitive, get_type and get_datetime_format
\* fold the names asked for to upper case before they look them up: when every
\* folded name is in the catalog the call returns the values of these variables,
\* otherwise it raises the unknown-variable error, which shows the names that
\* are unknown as the caller spelt them.
C23_CaseFolding ==
    (last.op \in {"get_type", "get_datetime_format"} /\ ~last.before.is_case_sensitive) =>
        LET asked == last.input.items
            folded == [i \in 1..Len(asked) |-> Upper(asked[i])]
            stored(n) == \E k \in 1..Len(self.md) : self.md[k].name = n
        IN  IF \A i \in 1..Len(asked) : stored(folded[i])
            THEN /\ last.outcome = "ok"
                 /\ last.value = loc(self.md, folded,
                                     IF last.op = "get_type" THEN "TYPE"
                                     ELSE "DATETIME_FORMAT")
            ELSE /\ last.outcome = "ValueError"
                 /\ last.shown = SelectSeq(asked, LAMBDA n : ~stored(Upper(n)))

\* C30: MetadataCatalog(md, is_case_sensitive), for a table of at least one
\* variable that has the columns the constructor reads, returns a catalog whose
\* names are in sorted order and are the names of the table as they were given
\* when is_case_sensitive is true, and these names in upper case when it is
\* false.
C30_CaseSensitiveNames ==
    (last.op = "__init__" /\ ~last.frame.is_none /\ last.frame.plain_columns
        /\ Len(last.frame.rows) > 0) =>
        LET given == last.frame.rows
            names == MetadataCatalog_get_variable_names(self)
        IN  /\ last.outcome = "ok"
            /\ Len(names) = Len(given)
            /\ \A i \in 1..(Len(names) - 1) : StrLeq(names[i], names[i + 1])
            /\ {names[i] : i \in 1..Len(names)}
                  = {IF last.flag THEN given[i].name ELSE Upper(given[i].name) :
                        i \in 1..Len(given)}

\* ------------------------------------------------------ class ExcelDictionary
NoDictionary == [is_none |-> TRUE, sheet |-> <<>>]

\* an instance as the assignments of ExcelDictionary.__init__ leave it; sheet is
\* what the file holds, one (type label, format) pair per variable
Dictionary(sheet) == [is_none |-> FALSE, sheet |-> sheet]

\* ExcelDictionary.__init__: `~os.path.exists(file_name) or ~os.path.isfile(file_name)`
ExcelDictionary_init(path_exists, path_isfile, sheet) ==
    IF invert(path_exists) # 0 \/ invert(path_isfile) # 0
    THEN [obj |-> NoDictionary,
          res |-> Raise("ValueError", "Dictionary file does not exist")]
    ELSE [obj |-> Dictionary(sheet), res |-> Ok]

\* the columns of data after set_axis
data_columns == {"NAME", "vartype", "LENGTH", "FORMAT"}

\* ExcelDictionary.read_metadata: the first column it reads after the checks of
\* the dtypes is data['TYPE']; the classification that follows starts with
\* varformat.match, which a Series does not have
read_metadata(obj) ==
    IF "TYPE" \notin data_columns
    THEN [cat |-> NoCatalog, res |-> Raise("KeyError", "data['TYPE']")]
    ELSE [cat |-> NoCatalog, res |-> Raise("AttributeError", "varformat.match")]

\* ------------------------------------------------ operations on dictionaries
\* the type labels and the formats of a sheet
Labels == {"BOOLEAN", "FLAG", "CHAR", "TEXT", "INT", "FLOAT", "NUM"}
SheetFormats == {"", "8", "8.0", "8.2", "BEST12.", "DDMMYY8.", "TIME5.", "XYZ"}

Sheets == SeqsUpTo([label : Labels, format : SheetFormats], MaxVars) \ {<<>>}

\* ExcelDictionary(file_name, sheet_name); the one dictionary of a behaviour is
\* constructed first
ConstructExcelDictionary ==
    /\ self = NoDictionary /\ last.op = "none"
    /\ \E path_exists \in BOOLEAN, path_isfile \in BOOLEAN, sheet \in Sheets :
         LET r == ExcelDictionary_init(path_exists, path_isfile, sheet)
         IN  /\ self' = r.obj
             /\ last' = [NoCatOp EXCEPT !.op = "__init__", !.input = ListOf(sheet),
                                        !.flag = path_exists /\ path_isfile,
                                        !.outcome = r.res.outcome, !.site = r.res.site]
    /\ UNCHANGED <<store, exists, conn, log>>

\* dictionary.read_metadata()
ReadMetadata ==
    /\ ~self.is_none
    /\ LET r == read_metadata(self)
       IN  last' = [NoCatOp EXCEPT !.op = "read_metadata", !.input = ListOf(self.sheet),
                                   !.outcome = r.res.outcome, !.site = r.res.site,
                                   !.result = r.cat]
    /\ UNCHANGED <<self, store, exists, conn, log>>

InitExcel ==
    /\ self \in {NoDictionary} \cup {Dictionary(sheet) : sheet \in Sheets}
    /\ store = [a \in Addr |-> <<>>]
    /\ exists = {}
    /\ conn = NoConnection
    /\ last = NoCatOp
    /\ log = <<>>

NextExcel == ConstructExcelDictionary \/ ReadMetadata

SpecExcel == InitExcel /\ [][NextExcel]_vars

\* ------------------------------------------------------- claims on dictionaries
\* the formats of a NUM variable that the rules call integer, float, date, time
IntegerFormats == {"8", "8.0"}
FloatFormats == {"8.2", "BEST12.", ""}
DateFormats == {"DDMMYY8."}
TimeFormats == {"TIME5."}

\* the type flags the rules give to a (type label, format) pair
RuleFlags(row) ==
    {t \in Types :
        CASE t = "BOOLEAN" -> row.label \in {"BOOLEAN", "LOGICAL", "FLAG"}
          [] t = "TEXT" -> row.label \in {"CHAR", "TEXT"}
          [] t = "INTEGER" -> \/ row.label \in {"INT", "INTEGER"}
                              \/ row.label = "NUM" /\ row.format \in IntegerFormats
          [] t = "FLOAT" -> \/ row.label \in {"FLOAT", "DECIMAL", "NUMERIC"}
                            \/ row.label = "NUM" /\ row.format \in FloatFormats
          [] t = "DATE" -> row.label = "NUM" /\ row.format \in DateFormats
          [] t = "TIME" -> row.label = "NUM" /\ row.format \in TimeFormats
          [] OTHER -> FALSE}

\* C24: read_metadata() on a sheet whose variables all have a type that is not
\* date, time or timestamp by the rules returns a catalog of these variables in
\* which the flags boolean, text, integer and float of each variable are the
\* ones the rules give.
C24_Classification ==
    (last.op = "read_metadata"
        /\ \A i \in 1..Len(last.input.items) :
              /\ RuleFlags(last.input.items[i]) # {}
              /\ RuleFlags(last.input.items[i]) \cap {"DATE", "TIME", "TIMESTAMP"} = {}) =>
        /\ last.outcome = "ok"
        /\ Len(last.result.md) = Len(last.input.items)
        /\ \A i \in 1..Len(last.input.items) :
              last.result.md[i].flags = RuleFlags(last.input.items[i])

====
